---- MODULE Spec2Model ----
(***************************************************************************)
(* Offline notes editor: the useAutosave hook (src/hooks/useAutosave.tsx), *)
(* its wiring in Home (src/app/page.tsx), the IndexedDB storage layer      *)
(* (src/lib/storage.ts) and the image handling of the editor.              *)
(*                                                                         *)
(* Time is in milliseconds; the clock advances in steps of one countdown   *)
(* period (intervalMs).  null is modelled by 0 for timer handles, by       *)
(* NoDate for lastSaved and by NullValue for JavaScript values.            *)
(***************************************************************************)
EXTENDS Integers, Sequences, FiniteSets, TLC

\* ---------------------------------------------------------------- bounds
MaxTicks == 10
MaxEdits == 2
MaxInFlight == 2
MaxDocSaves == 1
MaxMs == 1
MaxRand == 1
MaxBlobs == 1
MaxNodes == 1
MaxItems == 2
MaxKids == 2
MaxApiBlobs == 2

\* ------------------------------------------------------ program constants
delay == 5000
intervalMs == 1000
DOCUMENT_ID == "main-document"

NoDate == -1

VARIABLES
  onSaveInline,          \* TRUE: the caller is Home, whose onSave is a new closure each render
  page,                  \* "open" | "unloaded"
  now,                   \* Date.now()
  status,                \* useState<AutosaveStatus>
  timeoutRef,            \* useRef: handle of the save timeout, 0 = null
  countdownIntervalRef,  \* useRef: handle of the countdown interval, 0 = null
  pendingChangesRef,     \* useRef(false)
  timers,                \* the browser's live timers
  nextTimerId,           \* the handle the next setTimeout / setInterval returns
  editor,                \* Home's useState<TiptapEditor | null>: TRUE = set
  onSaveEditor,          \* `editor` as captured by the onSave closure the hook holds
  renderPending,         \* a state update is waiting for React to re-render
  docText,               \* the editor's text content (a version number)
  saves,                 \* onSave invocations in flight, oldest first
  documents,             \* object store 'documents'
  images,                \* object store 'images'
  dbInstance,            \* storage.ts dbInstance: TRUE = the database is open
  docNodes,              \* the editor's image nodes, in document order
  paste,                 \* the handleImagePaste / handleImageDrop call in progress
  lastSavedDoc,          \* history: the value the last completed saveDocument was given
  resolveIn,             \* the tree handed to resolveImageUrls
  resolveOut,            \* the tree resolveImageUrls returned
  lastTrigger,           \* history: time of the most recent triggerAutosave, NoDate = none
  ret,                   \* how the last call of a storage function settled
  savedAs,               \* history: the (id, blob) of the saveImage calls that returned,
                         \* less those whose id a deleteImage has deleted since
  op                     \* history: the operation that made the last step

vars == <<onSaveInline, page, now, status, timeoutRef, countdownIntervalRef,
          pendingChangesRef, timers, nextTimerId, editor, onSaveEditor,
          renderPending, docText, saves, documents, images, dbInstance,
          docNodes, paste, lastSavedDoc, resolveIn, resolveOut,
          lastTrigger, ret, savedAs, op>>

\* What the hook's steps leave alone, and what the storage layer's steps do.
\* ret and savedAs are written by the calls whose outcome is observed
\* (CallSaveImage and the like) and by nothing else.
storeVars == <<images, docNodes, paste, resolveIn, resolveOut, ret, savedAs>>
hookVars == <<onSaveInline, page, status, timeoutRef, countdownIntervalRef,
              pendingChangesRef, timers, nextTimerId, editor, onSaveEditor,
              renderPending, lastTrigger, ret, savedAs>>
\* What a call of a storage function leaves alone.
editorVars == <<onSaveInline, page, status, timeoutRef, countdownIntervalRef,
                pendingChangesRef, timers, nextTimerId, editor, onSaveEditor,
                renderPending, lastTrigger, docText, saves, docNodes, paste,
                resolveIn, resolveOut>>

\* ------------------------------------------------------------ JS values
\* An image identifier `img-${Date.now()}-${random}`: the time and the
\* random part.  NoImageId is a null or absent imageId attribute.
ImageId(t, r) == [t |-> t, r |-> r]
NoImageId == [t |-> -1, r |-> 0]

\* A src attribute or a URL: none (null), an object URL of a blob
\* (URL.createObjectURL), a data: URL holding the bytes of a blob inline, or
\* an external http URL.
NoSrc == [kind |-> "none", ref |-> 0]
BlobUrl(b) == [kind |-> "blob", ref |-> b]
DataUrl(b) == [kind |-> "data", ref |-> b]
HttpUrl == [kind |-> "http", ref |-> 0]

\* A JavaScript value that can be handed to saveDocument: a node of a TipTap
\* JSON tree (js = "object") or a scalar (null, 0, '', false).
Node(type, text, imageId, src, alt, content) ==
  [js |-> "object", type |-> type, text |-> text, imageId |-> imageId,
   src |-> src, alt |-> alt, content |-> content]

Scalar(k) ==
  [js |-> k, type |-> "", text |-> 0, imageId |-> NoImageId, src |-> NoSrc,
   alt |-> 0, content |-> <<>>]

NullValue == Scalar("null")
Undefined == Scalar("undefined")
\* The falsy values: null, and 0 (which stands for '', false and NaN too).
FalsyValues == {Scalar("null"), Scalar("zero")}

TextNode(text) == Node("text", text, NoImageId, NoSrc, 0, <<>>)
Paragraph(text) == Node("paragraph", 0, NoImageId, NoSrc, 0, <<TextNode(text)>>)
ImageNode(imageId, src, alt) == Node("image", 0, imageId, src, alt, <<>>)

\* The editor's document: a paragraph of text followed by the image nodes.
DocJson(text, nodes) ==
  Node("doc", 0, NoImageId, NoSrc, 0, <<Paragraph(text)>> \o nodes)

TextOf(doc) == doc.content[1].content[1].text
NodesOf(doc) == Tail(doc.content)

\* JavaScript truthiness, as used by `||`, `!` and `if`.
Truthy(v) == v.js = "object"

CeilDiv(a, b) == (a + b - 1) \div b

\* ---------------------------------------------------------------- timers
\* clearTimeout(h) / clearInterval(h): remove the live timer with handle h.
clearTimer(ts, h) == {t \in ts : t.id # h}

clearTimers_keepTimeout(ts, tRef, cRef) == clearTimer(ts, cRef)

\* clearTimers(): the timer table after both refs' timers have been cleared.
clearTimers(ts, tRef, cRef) == clearTimer(clearTimer(ts, tRef), cRef)

\* ------------------------------------------------------------- storage
\* getDB(): dbInstance after the call; opening the database may fail.
getDB(inst, ok) == inst \/ ok

\* The records' updatedAt / createdAt stamps, which no code reads, are left out.
\* db.put(store, rec) on a store with keyPath 'id'.
Put(store, rec) == {r \in store : r.id # rec.id} \cup {rec}

\* db.get(store, key): the set holding the record, empty when undefined.
Get(store, key) == {r \in store : r.id = key}

saveDocument_addRecord(store, docJson) ==
  store \cup {[id |-> IF store = {} THEN DOCUMENT_ID ELSE "main-document-2",
                content |-> docJson]}

saveDocument_otherKey(store, docJson) ==
  Put(store, [id |-> "document", content |-> docJson])

\* saveDocument(docJson): the documents store after the put has completed.
saveDocument(store, docJson) ==
  Put(store, [id |-> DOCUMENT_ID, content |-> docJson])

\* loadDocument(): doc?.content || null
loadDocument(store) ==
  LET found == Get(store, DOCUMENT_ID) IN
  IF found = {} THEN NullValue
  ELSE LET doc == CHOOSE r \in found : TRUE IN
       IF Truthy(doc.content) THEN doc.content ELSE NullValue

\* saveImage(blob): the images store after the put of the record under id.
saveImage(store, blob, id) == Put(store, [id |-> id, blob |-> blob])

loadImage_noCheck(store, imageId, ok) ==
  IF Get(store, imageId) = {} THEN BlobUrl(0)
  ELSE BlobUrl((CHOOSE r \in Get(store, imageId) : TRUE).blob)

\* loadImage(imageId): an object URL of the stored blob, null when there is
\* no record; ok = the database read succeeded (the catch branch returns null).
loadImage(store, imageId, ok) ==
  IF ~ok \/ Get(store, imageId) = {} THEN NoSrc
  ELSE BlobUrl((CHOOSE r \in Get(store, imageId) : TRUE).blob)

\* getAllImages(): db.getAllKeys('images'), [] in the catch branch.
getAllImages(store, ok) == IF ok THEN {r.id : r \in store} ELSE {}

\* deleteImage(imageId): the images store after db.delete.
deleteImage(store, imageId) == {r \in store : r.id # imageId}

\* The imageIds the image nodes of a tree carry.
RECURSIVE RefIds(_)
RefIds(v) ==
  (IF v.type = "image" /\ v.imageId # NoImageId THEN {v.imageId} ELSE {})
    \cup UNION {RefIds(v.content[i]) : i \in DOMAIN v.content}

resolveImageUrls_leaf(content, store, failed) ==
  IF /\ content.imageId # NoImageId
     /\ loadImage(store, content.imageId, content.imageId \notin failed) # NoSrc
  THEN [content EXCEPT
          !.src = loadImage(store, content.imageId, content.imageId \notin failed)]
  ELSE content

resolveImageUrls_shallow(content, store, failed) ==
  IF ~Truthy(content) THEN content
  ELSE IF /\ content.type = "image"
          /\ content.imageId # NoImageId
          /\ loadImage(store, content.imageId, content.imageId \notin failed) # NoSrc
  THEN [content EXCEPT
          !.src = loadImage(store, content.imageId, content.imageId \notin failed)]
  ELSE IF content.content # <<>>
  THEN [content EXCEPT
          !.content = [i \in DOMAIN content.content |->
                         IF content.content[i].type = "image"
                         THEN resolveImageUrls_leaf(content.content[i], store, failed)
                         ELSE content.content[i]]]
  ELSE content

\* resolveImageUrls(content): failed = the imageIds whose loadImage call hits
\* a database error.
RECURSIVE resolveImageUrls(_, _, _)
resolveImageUrls(content, store, failed) ==
  IF ~Truthy(content) THEN content
  ELSE IF /\ content.type = "image"
          /\ content.imageId # NoImageId
          /\ loadImage(store, content.imageId, content.imageId \notin failed) # NoSrc
  THEN [content EXCEPT
          !.src = loadImage(store, content.imageId, content.imageId \notin failed)]
  ELSE IF content.content # <<>>
  THEN [content EXCEPT
          !.content = [i \in DOMAIN content.content |->
                         resolveImageUrls(content.content[i], store, failed)]]
  ELSE content

\* loadDoc has not resolved a document yet.
NotResolved == [done |-> FALSE, failed |-> {}, tree |-> Undefined]

\* How a call of a storage function settled: the promise resolved with a
\* value (an identifier, a URL, a list of keys, a document, or nothing) or
\* rejected with the error err.  dbError is the error the database
\* operation inside the call failed with, "" when it did not fail.
Ret(call, outcome) ==
  [call |-> call, outcome |-> outcome, err |-> "", dbError |-> "",
   id |-> NoImageId, url |-> NoSrc, ids |-> {}, doc |-> Undefined]
NoRet == Ret("", "none")
Returned(call) == Ret(call, "returned")

Rejected_wrapped(call, err) == [Ret(call, "rejected") EXCEPT !.err = "Error"]

\* catch (error) { console.error(...); throw error; }
Rejected(call, err) == [Ret(call, "rejected") EXCEPT !.err = err]

\* The call settled as r while its database operation went as out.
Settled(r, out) == [r EXCEPT !.dbError = IF out = "ok" THEN "" ELSE out]

\* The errors an IndexedDB request can fail with.
DbErrors == {"AbortError", "QuotaExceededError"}
Outcomes == {"ok"} \cup DbErrors

\* No handleImagePaste / handleImageDrop call is in progress.
NoPaste == [active |-> FALSE, items |-> <<>>, imageId |-> NoImageId]

\* ------------------------------------------------------------ the hook
\* The setStatus updaters of the hook.
savingStatus(prev) == [prev EXCEPT !.status = "saving", !.countdown = 0]

savedStatus(at) == [status |-> "saved", lastSaved |-> at, countdown |-> 0]

failedStatus_keepCountdown(prev) == [prev EXCEPT !.status = "idle"]

failedStatus(prev) == [prev EXCEPT !.status = "idle", !.countdown = 0]

typingStatus_dropPrev(prev, secs) ==
  [status |-> "typing", lastSaved |-> NoDate, countdown |-> secs]

typingStatus(prev, secs) == [prev EXCEPT !.status = "typing", !.countdown = secs]

countdownStatus_idleAtZero(prev, left) ==
  [prev EXCEPT !.countdown = left,
               !.status = IF left <= 0 THEN "idle" ELSE prev.status]

countdownStatus(prev, left) == [prev EXCEPT !.countdown = left]

\* AutosaveIndicator getStatusText(): the text shown, with the number put
\* into it (the countdown, or the time of the last save; 0 = none).
getStatusText(st) ==
  CASE st.status = "typing" -> [text |-> "Typing... autosave in", n |-> st.countdown]
    [] st.status = "saving" -> [text |-> "Saving...", n |-> 0]
    [] st.status = "saved" ->
         IF st.lastSaved # NoDate THEN [text |-> "Saved at", n |-> st.lastSaved]
         ELSE [text |-> "All changes saved", n |-> 0]
    [] OTHER -> [text |-> "All changes saved", n |-> 0]

\* editor.getJSON()
getJSON == DocJson(docText, docNodes)

\* Home's onSave: `if (editor) { await saveDocument(editor.getJSON()) }`.
\* The record of the invocation: what it hands to saveDocument, if anything,
\* and (history) the editor's content when it started.
onSave_staleEditor(origin) ==
  [origin |-> origin, writes |-> FALSE, json |-> NullValue, started |-> getJSON]

onSave(origin) ==
  IF onSaveInline /\ ~onSaveEditor
  THEN [origin |-> origin, writes |-> FALSE, json |-> NullValue, started |-> getJSON]
  ELSE [origin |-> origin, writes |-> TRUE, json |-> getJSON, started |-> getJSON]

\* save(): clearTimers(), status 'saving', then `await onSave()`.
\* ts is the timer table when save() is entered.
save(ts) ==
  /\ Len(saves) < MaxInFlight
  /\ timers' = clearTimers(ts, timeoutRef, countdownIntervalRef)
  /\ timeoutRef' = 0
  /\ countdownIntervalRef' = 0
  /\ status' = savingStatus(status)
  /\ saves' = Append(saves, onSave("save"))
  /\ renderPending' = TRUE

\* triggerAutosave()
triggerAutosave ==
  LET cleared == clearTimers(timers, timeoutRef, countdownIntervalRef)
      secs == CeilDiv(delay, 1000)
      iv == nextTimerId
      to == nextTimerId + 1
  IN
  /\ nextTimerId' = nextTimerId + 2
  /\ pendingChangesRef' = TRUE
  /\ status' = typingStatus(status, secs)
  /\ countdownIntervalRef' = iv
  /\ timeoutRef' = to
  /\ timers' = cleared \cup
       {[id |-> iv, kind |-> "interval", due |-> now + intervalMs, remainingSeconds |-> secs],
        [id |-> to, kind |-> "timeout", due |-> now + delay, remainingSeconds |-> 0]}
  /\ lastTrigger' = now
  /\ renderPending' = TRUE

\* Home.handleEditorUpdate(updatedEditor), called by the editor's onUpdate
\* after a change of the content: setEditor(updatedEditor); triggerAutosave().
handleEditorUpdate ==
  /\ page = "open"
  /\ docText < MaxEdits
  /\ docText' = docText + 1
  /\ editor' = TRUE
  /\ triggerAutosave
  /\ op' = "triggerAutosave"
  /\ UNCHANGED <<storeVars, dbInstance, lastSavedDoc>>
  /\ UNCHANGED <<onSaveInline, page, now, onSaveEditor, saves, documents>>

\* The countdown interval's callback.
IntervalFire(t) ==
  LET left == t.remainingSeconds - 1
      stop == left <= 0 /\ countdownIntervalRef # 0
  IN
  /\ page = "open"
  /\ t.kind = "interval"
  /\ t.due <= now
  /\ status' = countdownStatus(status, left)
  /\ timers' =
       IF stop
       THEN clearTimer((timers \ {t}) \cup {[t EXCEPT !.due = t.due + intervalMs,
                                                !.remainingSeconds = left]},
                       countdownIntervalRef)
       ELSE (timers \ {t}) \cup {[t EXCEPT !.due = t.due + intervalMs,
                                            !.remainingSeconds = left]}
  /\ countdownIntervalRef' = IF stop THEN 0 ELSE countdownIntervalRef
  /\ renderPending' = TRUE
  /\ op' = "interval"
  /\ UNCHANGED <<storeVars, dbInstance, lastSavedDoc>>
  /\ UNCHANGED <<nextTimerId, onSaveInline, page, now, timeoutRef, pendingChangesRef, editor,
                 onSaveEditor, docText, saves, documents, lastTrigger>>

\* The save timeout's callback: save().
TimeoutFire(t) ==
  /\ page = "open"
  /\ t.kind = "timeout"
  /\ t.due <= now
  /\ save(timers \ {t})
  /\ op' = "timeoutSave"
  /\ UNCHANGED <<storeVars, dbInstance, lastSavedDoc>>
  /\ UNCHANGED <<nextTimerId, onSaveInline, page, now, pendingChangesRef, editor, onSaveEditor,
                 docText, documents, lastTrigger>>

\* A direct call of the save() the hook returns.  Home does not use it.
SaveCall ==
  /\ page = "open"
  /\ ~onSaveInline
  /\ save(timers)
  /\ op' = "directSave"
  /\ UNCHANGED <<storeVars, dbInstance, lastSavedDoc>>
  /\ UNCHANGED <<nextTimerId, onSaveInline, page, now, pendingChangesRef, editor, onSaveEditor,
                 docText, documents, lastTrigger>>

\* The oldest onSave in flight settles; ok = the database write succeeded.
\* For an invocation made by save() the continuation of save() runs
\* (lines 44-50 on success, the catch branch on failure).
SaveSettle(ok) ==
  LET s == Head(saves) IN
  /\ saves # <<>>
  /\ ok \/ s.writes
  /\ saves' = Tail(saves)
  /\ documents' = IF ok /\ s.writes THEN saveDocument(documents, s.json)
                  ELSE documents
  /\ lastSavedDoc' = IF ok /\ s.writes THEN s.json ELSE lastSavedDoc
  /\ dbInstance' = IF s.writes THEN getDB(dbInstance, ok) ELSE dbInstance
  /\ IF s.origin = "save" /\ page = "open"
     THEN /\ status' = IF ok THEN savedStatus(now) ELSE failedStatus(status)
          /\ pendingChangesRef' = IF ok THEN FALSE ELSE pendingChangesRef
          /\ renderPending' = TRUE
          /\ op' = IF ok THEN "saveOk" ELSE "saveFailed"
     ELSE /\ UNCHANGED <<status, pendingChangesRef, renderPending>>
          /\ op' = "saveDocumentSettled"
  /\ UNCHANGED storeVars
  /\ UNCHANGED <<nextTimerId, onSaveInline, page, now, timeoutRef, countdownIntervalRef, timers,
                 editor, onSaveEditor, docText, lastTrigger>>

\* React re-renders Home and the hook.  With an inline onSave the effect's
\* dependency changed: its cleanup (removeEventListener, clearTimers()) runs
\* and the effect subscribes a handler that holds the new onSave.
Rerender ==
  /\ page = "open"
  /\ renderPending
  /\ renderPending' = FALSE
  /\ IF onSaveInline
     THEN /\ timers' = clearTimers(timers, timeoutRef, countdownIntervalRef)
          /\ timeoutRef' = 0
          /\ countdownIntervalRef' = 0
          /\ onSaveEditor' = editor
     ELSE UNCHANGED <<timers, timeoutRef, countdownIntervalRef, onSaveEditor>>
  /\ op' = "render"
  /\ UNCHANGED <<storeVars, dbInstance, lastSavedDoc>>
  /\ UNCHANGED <<nextTimerId, onSaveInline, page, now, status, pendingChangesRef, editor,
                 docText, saves, documents, lastTrigger>>

\* handleBeforeUnload: `if (pendingChangesRef.current) onSave()`; the page
\* then goes away, and its timers with it.
handleBeforeUnload ==
  /\ page = "open"
  /\ page' = "unloaded"
  /\ saves' = IF pendingChangesRef THEN Append(saves, onSave("unload")) ELSE saves
  /\ timers' = {}
  /\ op' = "beforeunload"
  /\ UNCHANGED <<storeVars, dbInstance, lastSavedDoc>>
  /\ UNCHANGED <<nextTimerId, onSaveInline, now, status, timeoutRef, countdownIntervalRef,
                 pendingChangesRef, editor, onSaveEditor, renderPending, docText,
                 documents, lastTrigger>>

\* One countdown period passes.  Due timer callbacks and pending renders run
\* before that much time has gone by.
Tick ==
  /\ page = "open"
  /\ now + intervalMs <= MaxTicks * intervalMs
  /\ ~renderPending
  /\ \A t \in timers : t.due > now
  /\ now' = now + intervalMs
  /\ op' = "tick"
  /\ UNCHANGED <<storeVars, dbInstance, lastSavedDoc>>
  /\ UNCHANGED <<nextTimerId, onSaveInline, page, status, timeoutRef, countdownIntervalRef,
                 pendingChangesRef, timers, editor, onSaveEditor, renderPending,
                 docText, saves, documents, lastTrigger>>

\* ----------------------------------------------- editor and image handling
Blobs == 1..MaxBlobs
AllImageIds == {ImageId(t, r) : t \in 0..MaxMs, r \in 1..MaxRand}

\* A clipboard item or dropped file: its type names an image or not, and the
\* file it yields (0 = getAsFile() returned null).
ClipItems ==
  {[image |-> FALSE, blob |-> 0]} \cup {[image |-> TRUE, blob |-> b] : b \in Blobs \cup {0}}

ClipLists(via) ==
  UNION {[1..n -> IF via = "drop" THEN {c \in ClipItems : c.blob # 0 \/ ~c.image}
                  ELSE ClipItems] :
           n \in (IF via = "drop" THEN 1 ELSE 0)..MaxItems}

\* Editor handlePaste / handleDrop: handleImagePaste(event) or
\* handleImageDrop(event) is called and runs up to its first await.  items
\* holds the entries the loop has not passed yet.
PasteEvent(via, items) ==
  /\ page = "open"
  /\ ~paste.active
  /\ paste' = [active |-> TRUE, items |-> items, imageId |-> NoImageId]
  /\ op' = via
  /\ UNCHANGED <<hookVars, now, docText, saves, documents, images, dbInstance,
                 docNodes, lastSavedDoc, resolveIn, resolveOut>>

\* The loop passes an entry that is no image (or has no file).
PasteSkip ==
  /\ paste.active
  /\ paste.imageId = NoImageId
  /\ paste.items # <<>>
  /\ ~Head(paste.items).image \/ Head(paste.items).blob = 0
  /\ paste' = [paste EXCEPT !.items = Tail(paste.items)]
  /\ op' = "pasteSkip"
  /\ UNCHANGED <<hookVars, now, docText, saves, documents, images, dbInstance,
                 docNodes, lastSavedDoc, resolveIn, resolveOut>>

PasteSaveImage_noCatch(r, ok) ==
  /\ paste.active
  /\ paste.imageId = NoImageId
  /\ paste.items # <<>>
  /\ Head(paste.items).image /\ Head(paste.items).blob # 0
  /\ dbInstance' = getDB(dbInstance, ok)
  /\ IF ok
     THEN /\ images' = saveImage(images, Head(paste.items).blob, ImageId(now, r))
          /\ paste' = [paste EXCEPT !.imageId = ImageId(now, r)]
     ELSE /\ images' = images
          /\ paste' = NoPaste
  /\ op' = IF ok THEN "pasteSaveImage" ELSE "pasteRejected"
  /\ UNCHANGED <<hookVars, now, docText, saves, documents, docNodes,
                 lastSavedDoc, resolveIn, resolveOut>>

\* `await saveImage(blob)` for the entry at hand: on success the record is
\* stored under a new identifier; on failure the catch logs and the loop
\* goes on.
PasteSaveImage(r, ok) ==
  /\ paste.active
  /\ paste.imageId = NoImageId
  /\ paste.items # <<>>
  /\ Head(paste.items).image /\ Head(paste.items).blob # 0
  /\ dbInstance' = getDB(dbInstance, ok)
  /\ IF ok
     THEN /\ images' = saveImage(images, Head(paste.items).blob, ImageId(now, r))
          /\ paste' = [paste EXCEPT !.imageId = ImageId(now, r)]
     ELSE /\ images' = images
          /\ paste' = [paste EXCEPT !.items = Tail(paste.items)]
  /\ op' = IF ok THEN "pasteSaveImage" ELSE "pasteSaveImageFailed"
  /\ UNCHANGED <<hookVars, now, docText, saves, documents, docNodes,
                 lastSavedDoc, resolveIn, resolveOut>>

\* `await loadImage(imageId)`: with a URL the function returns
\* {imageId, src} and the editor inserts the image node (setImage or
\* insertContentAt); with null the loop goes on to the next entry.
pasteLoadImage(ok) ==
  LET src == loadImage(images, paste.imageId, ok) IN
  /\ paste.active
  /\ paste.imageId # NoImageId
  /\ dbInstance' = getDB(dbInstance, ok)
  /\ IF src # NoSrc
     THEN /\ Len(docNodes) < MaxNodes
          /\ docNodes' = Append(docNodes, ImageNode(paste.imageId, src, 0))
          /\ paste' = NoPaste
     ELSE /\ docNodes' = docNodes
          /\ paste' = [paste EXCEPT !.items = Tail(paste.items), !.imageId = NoImageId]
  /\ op' = IF src # NoSrc THEN "pasteInsert" ELSE "pasteLoadImageNull"
  /\ UNCHANGED <<now, docText, saves, documents, images,
                 lastSavedDoc, resolveIn, resolveOut>>

\* The same with the hook left out of the picture.
PasteLoadImage(ok) == pasteLoadImage(ok) /\ UNCHANGED hookVars

\* Editor onUpdate -> Home.handleEditorUpdate: setEditor(updatedEditor);
\* triggerAutosave().
onUpdate_noTrigger ==
  /\ editor' = TRUE
  /\ UNCHANGED <<nextTimerId, pendingChangesRef, status, countdownIntervalRef,
                 timeoutRef, timers, lastTrigger, renderPending>>

onUpdate ==
  /\ editor' = TRUE
  /\ triggerAutosave

\* The same with the hook in the picture: the insertion is a change of the
\* editor's content, so the editor calls onUpdate.
PasteLoadImageUpdate(ok) ==
  /\ pasteLoadImage(ok)
  /\ IF loadImage(images, paste.imageId, ok) # NoSrc
     THEN /\ onUpdate
          /\ UNCHANGED <<onSaveInline, page, onSaveEditor, ret, savedAs>>
     ELSE UNCHANGED hookVars

\* The loop is past the last entry: `return null`, nothing is inserted.
PasteEnd ==
  /\ paste.active
  /\ paste.imageId = NoImageId
  /\ paste.items = <<>>
  /\ paste' = NoPaste
  /\ op' = "pasteNull"
  /\ UNCHANGED <<hookVars, now, docText, saves, documents, images, dbInstance,
                 docNodes, lastSavedDoc, resolveIn, resolveOut>>

\* The image nodes the editor parses out of pasted HTML (CustomImage
\* parseHTML): imageId from data-image-id, src from the img element.
HtmlImages ==
  {ImageNode(NoImageId, DataUrl(1), 0), ImageNode(ImageId(0, 1), BlobUrl(1), 0)}

\* Pasted HTML with an img element is inserted by the editor's own paste
\* handling (handlePaste returns false).
PasteHtml(node) ==
  /\ page = "open"
  /\ Len(docNodes) < MaxNodes
  /\ docNodes' = Append(docNodes, node)
  /\ op' = "pasteHtml"
  /\ UNCHANGED <<hookVars, now, docText, saves, documents, images, dbInstance,
                 paste, lastSavedDoc, resolveIn, resolveOut>>

\* The user deletes the image node at position k.
RemoveNode(k) ==
  /\ page = "open"
  /\ k \in 1..Len(docNodes)
  /\ docNodes' = [j \in 1..(Len(docNodes) - 1) |->
                    IF j < k THEN docNodes[j] ELSE docNodes[j + 1]]
  /\ op' = "removeNode"
  /\ UNCHANGED <<hookVars, now, docText, saves, documents, images, dbInstance,
                 paste, lastSavedDoc, resolveIn, resolveOut>>

\* saveDocument(v) is called: by Home's onSave with editor.getJSON(), or by
\* another caller with a value of its own.
SaveDocumentCall(v) ==
  /\ Len(saves) < MaxDocSaves
  /\ saves' = Append(saves, [origin |-> "api", writes |-> TRUE, json |-> v, started |-> getJSON])
  /\ op' = "saveDocument"
  /\ UNCHANGED <<hookVars, now, docText, documents, images, dbInstance, docNodes,
                 paste, lastSavedDoc, resolveIn, resolveOut>>

\* saveImage(blob) is called by another caller than the paste handling.
SaveImageCall(blob, r, ok) ==
  /\ images' = IF ok THEN saveImage(images, blob, ImageId(now, r)) ELSE images
  /\ dbInstance' = getDB(dbInstance, ok)
  /\ op' = "saveImage"
  /\ UNCHANGED <<hookVars, now, docText, saves, documents, docNodes, paste,
                 lastSavedDoc, resolveIn, resolveOut>>

\* deleteImage(imageId) is called.
DeleteImageCall(imageId, ok) ==
  /\ images' = IF ok THEN deleteImage(images, imageId) ELSE images
  /\ dbInstance' = getDB(dbInstance, ok)
  /\ op' = "deleteImage"
  /\ UNCHANGED <<hookVars, now, docText, saves, documents, docNodes, paste,
                 lastSavedDoc, resolveIn, resolveOut>>

\* The page is reloaded: the module state is gone, Home's mount effect loads
\* the document, resolves its image URLs and hands it to the editor, which
\* shows its welcome content when there is none.
Reload(ok, failed) ==
  LET savedContent == IF ok THEN loadDocument(documents) ELSE NullValue
      resolved == resolveImageUrls(savedContent, images, failed)
  IN
  /\ page = "open"
  /\ dbInstance' = ok
  /\ paste' = NoPaste
  /\ docText' = IF Truthy(savedContent) THEN TextOf(resolved) ELSE 0
  /\ docNodes' = IF Truthy(savedContent) THEN NodesOf(resolved) ELSE <<>>
  /\ op' = "reload"
  /\ UNCHANGED <<hookVars, now, saves, documents, images, lastSavedDoc,
                 resolveIn, resolveOut>>

\* A millisecond passes.
MsTick ==
  /\ now < MaxMs
  /\ now' = now + 1
  /\ op' = "ms"
  /\ UNCHANGED <<hookVars, docText, saves, documents, images, dbInstance, docNodes,
                 paste, lastSavedDoc, resolveIn, resolveOut>>

\* --------------------------------------------- the storage functions alone
\* Each call runs from its start to the settling of its promise; out is "ok"
\* or the error the database operation (openDB, put, get, getAllKeys,
\* delete) fails with.
ApiBlobs == 1..MaxApiBlobs

CallSaveDocument(docJson, out) ==
  /\ dbInstance' = getDB(dbInstance, out = "ok")
  /\ IF out = "ok"
     THEN /\ documents' = saveDocument(documents, docJson)
          /\ lastSavedDoc' = docJson
          /\ ret' = Settled(Returned("saveDocument"), out)
     ELSE /\ UNCHANGED <<documents, lastSavedDoc>>
          /\ ret' = Settled(Rejected("saveDocument", out), out)
  /\ op' = "callSaveDocument"
  /\ UNCHANGED <<editorVars, now, images, savedAs>>

CallLoadDocument(out) ==
  /\ dbInstance' = getDB(dbInstance, out = "ok")
  /\ ret' = Settled([Returned("loadDocument") EXCEPT
                 !.doc = IF out = "ok" THEN loadDocument(documents) ELSE NullValue], out)
  /\ op' = "callLoadDocument"
  /\ UNCHANGED <<editorVars, now, documents, images, lastSavedDoc, savedAs>>

CallSaveImage(blob, r, out) ==
  /\ dbInstance' = getDB(dbInstance, out = "ok")
  /\ IF out = "ok"
     THEN /\ images' = saveImage(images, blob, ImageId(now, r))
          /\ ret' = Settled([Returned("saveImage") EXCEPT !.id = ImageId(now, r)], out)
          /\ savedAs' = savedAs \cup {[id |-> ImageId(now, r), blob |-> blob]}
     ELSE /\ images' = images
          /\ ret' = Settled(Rejected("saveImage", out), out)
          /\ savedAs' = savedAs
  /\ op' = "callSaveImage"
  /\ UNCHANGED <<editorVars, now, documents, lastSavedDoc>>

CallLoadImage(imageId, out) ==
  /\ dbInstance' = getDB(dbInstance, out = "ok")
  /\ ret' = Settled([Returned("loadImage") EXCEPT
                 !.id = imageId, !.url = loadImage(images, imageId, out = "ok")], out)
  /\ op' = "callLoadImage"
  /\ UNCHANGED <<editorVars, now, documents, images, lastSavedDoc, savedAs>>

CallGetAllImages(out) ==
  /\ dbInstance' = getDB(dbInstance, out = "ok")
  /\ ret' = Settled([Returned("getAllImages") EXCEPT
                 !.ids = getAllImages(images, out = "ok")], out)
  /\ op' = "callGetAllImages"
  /\ UNCHANGED <<editorVars, now, documents, images, lastSavedDoc, savedAs>>

CallDeleteImage(imageId, out) ==
  /\ dbInstance' = getDB(dbInstance, out = "ok")
  /\ IF out = "ok"
     THEN /\ images' = deleteImage(images, imageId)
          /\ ret' = Settled([Returned("deleteImage") EXCEPT !.id = imageId], out)
          /\ savedAs' = {p \in savedAs : p.id # imageId}
     ELSE /\ images' = images
          /\ ret' = Settled([Rejected("deleteImage", out) EXCEPT !.id = imageId], out)
          /\ savedAs' = savedAs
  /\ op' = "callDeleteImage"
  /\ UNCHANGED <<editorVars, now, documents, lastSavedDoc>>

Init ==
  /\ onSaveInline \in BOOLEAN
  /\ page = "open"
  /\ now = 0
  /\ status = [status |-> "idle", lastSaved |-> NoDate, countdown |-> 0]
  /\ timeoutRef = 0
  /\ countdownIntervalRef = 0
  /\ pendingChangesRef = FALSE
  /\ timers = {}
  /\ nextTimerId = 1
  /\ editor = FALSE
  /\ onSaveEditor = FALSE
  /\ renderPending = FALSE
  /\ docText = 0
  /\ saves = <<>>
  /\ documents = {}
  /\ images = {}
  /\ dbInstance = FALSE
  /\ docNodes = <<>>
  /\ paste = NoPaste
  /\ lastSavedDoc = Undefined
  /\ resolveIn = Undefined
  /\ resolveOut = NotResolved
  /\ lastTrigger = NoDate
  /\ ret = NoRet
  /\ savedAs = {}
  /\ op = "init"

Next ==
  \/ handleEditorUpdate
  \/ \E t \in timers : IntervalFire(t)
  \/ \E t \in timers : TimeoutFire(t)
  \/ SaveCall
  \/ \E ok \in BOOLEAN : SaveSettle(ok)
  \/ Rerender
  \/ handleBeforeUnload
  \/ Tick

Spec == Init /\ [][Next]_vars

\* The editor's images and the storage layer, with the hook left out: the
\* document is saved whenever some caller decides to.
InitStorage == Init /\ onSaveInline

NextStorage ==
  \/ \E via \in {"paste", "drop"} : \E items \in ClipLists(via) : PasteEvent(via, items)
  \/ PasteSkip
  \/ \E r \in 1..MaxRand : \E ok \in BOOLEAN : PasteSaveImage(r, ok)
  \/ \E ok \in BOOLEAN : PasteLoadImage(ok)
  \/ PasteEnd
  \/ \E node \in HtmlImages : PasteHtml(node)
  \/ \E k \in 1..MaxNodes : RemoveNode(k)
  \/ \E v \in FalsyValues \cup {getJSON} : SaveDocumentCall(v)
  \/ \E ok \in BOOLEAN : SaveSettle(ok)
  \/ \E b \in Blobs : \E r \in 1..MaxRand : \E ok \in BOOLEAN : SaveImageCall(b, r, ok)
  \/ \E id \in AllImageIds : \E ok \in BOOLEAN : DeleteImageCall(id, ok)
  \/ \E ok \in BOOLEAN : \E failed \in SUBSET RefIds(loadDocument(documents)) :
       Reload(ok, failed)
  \/ MsTick

SpecStorage == InitStorage /\ [][NextStorage]_vars

\* Paste and drop of images with the hook in the picture.
NextPaste ==
  \/ \E via \in {"paste", "drop"} : \E items \in ClipLists(via) : PasteEvent(via, items)
  \/ PasteSkip
  \/ \E r \in 1..MaxRand : \E ok \in BOOLEAN : PasteSaveImage(r, ok)
  \/ \E ok \in BOOLEAN : PasteLoadImageUpdate(ok)
  \/ PasteEnd
  \/ \E id \in AllImageIds : \E ok \in BOOLEAN : DeleteImageCall(id, ok)
  \/ MsTick

SpecPaste == InitStorage /\ [][NextPaste]_vars

\* The storage functions called in any order, in the same millisecond or not.
NextApi ==
  \/ \E v \in FalsyValues \cup {DocJson(1, <<>>), DocJson(2, <<>>)} :
       \E out \in Outcomes : CallSaveDocument(v, out)
  \/ \E out \in Outcomes : CallLoadDocument(out)
  \/ \E b \in ApiBlobs : \E r \in 1..MaxRand : \E out \in Outcomes : CallSaveImage(b, r, out)
  \/ \E id \in AllImageIds : \E out \in Outcomes : CallLoadImage(id, out)
  \/ \E out \in Outcomes : CallGetAllImages(out)
  \/ \E id \in AllImageIds : \E out \in Outcomes : CallDeleteImage(id, out)
  \/ MsTick

SpecApi == InitStorage /\ [][NextApi]_vars

\* ------------------------------------------------- resolveImageUrls alone
\* The trees a TipTap document can be: image nodes are leaves; paragraphs
\* and images are blocks of the document or of a blockquote.
ResolveIds == {ImageId(0, 1), ImageId(1, 1)}

ResolveLeaves ==
  {Paragraph(1),
   ImageNode(ImageId(0, 1), BlobUrl(3), 1),
   ImageNode(ImageId(1, 1), NoSrc, 0),
   ImageNode(NoImageId, DataUrl(1), 1)}

SeqsUpTo(S, n) == UNION {[1..k -> S] : k \in 0..n}

ResolveBlocks ==
  ResolveLeaves \cup
  {Node("blockquote", 0, NoImageId, NoSrc, 0, c) : c \in SeqsUpTo(ResolveLeaves, 2)}

ResolveInputs ==
  FalsyValues \cup
  {Node("doc", 0, NoImageId, NoSrc, 0, c) : c \in SeqsUpTo(ResolveBlocks, MaxKids)}

ResolveStores ==
  {{}, {[id |-> ImageId(0, 1), blob |-> 1]}, {[id |-> ImageId(1, 1), blob |-> 2]},
   {[id |-> ImageId(0, 1), blob |-> 1], [id |-> ImageId(1, 1), blob |-> 2]}}

InitResolve ==
  /\ onSaveInline = TRUE
  /\ page = "open"
  /\ now = 0
  /\ status = [status |-> "idle", lastSaved |-> NoDate, countdown |-> 0]
  /\ timeoutRef = 0
  /\ countdownIntervalRef = 0
  /\ pendingChangesRef = FALSE
  /\ timers = {}
  /\ nextTimerId = 1
  /\ editor = FALSE
  /\ onSaveEditor = FALSE
  /\ renderPending = FALSE
  /\ docText = 0
  /\ saves = <<>>
  /\ documents = {}
  /\ images \in ResolveStores
  /\ dbInstance = FALSE
  /\ docNodes = <<>>
  /\ paste = NoPaste
  /\ lastSavedDoc = Undefined
  /\ resolveIn \in ResolveInputs
  /\ resolveOut = NotResolved
  /\ lastTrigger = NoDate
  /\ ret = NoRet
  /\ savedAs = {}
  /\ op = "init"

\* loadDoc: `await resolveImageUrls(savedContent)`.
Resolve(failed) ==
  /\ ~resolveOut.done
  /\ resolveOut' = [done |-> TRUE, failed |-> failed,
                    tree |-> resolveImageUrls(resolveIn, images, failed)]
  /\ op' = "resolveImageUrls"
  /\ UNCHANGED <<hookVars, now, docText, saves, documents, images, dbInstance,
                 docNodes, paste, lastSavedDoc, resolveIn>>

\* The resolved document is saved as it is and resolved again by the next
\* page load.
ResolveSaved ==
  /\ resolveOut.done
  /\ resolveOut.tree # resolveIn
  /\ resolveIn' = resolveOut.tree
  /\ resolveOut' = NotResolved
  /\ op' = "resolveSaved"
  /\ UNCHANGED <<hookVars, now, docText, saves, documents, images, dbInstance,
                 docNodes, paste, lastSavedDoc>>

NextResolve ==
  \/ \E failed \in SUBSET ResolveIds : Resolve(failed)
  \/ ResolveSaved

SpecResolve == InitResolve /\ [][NextResolve]_vars

\* The event loop runs due timer callbacks, React flushes pending renders,
\* database requests settle and time passes; the user's edits and the unload
\* are under no obligation to happen.
FairSpec ==
  /\ Spec
  /\ WF_vars(Tick)
  /\ WF_vars(Rerender)
  /\ WF_vars(\E t \in timers : TimeoutFire(t))
  /\ WF_vars(\E t \in timers : IntervalFire(t))
  /\ WF_vars(\E ok \in BOOLEAN : SaveSettle(ok))

\* ------------------------------------------------------------------ claims
TimeoutsPending == {t \in timers : t.kind = "timeout"}
IntervalsPending == {t \in timers : t.kind = "interval"}
Horizon == MaxTicks * intervalMs

C1_OneOfEach ==
  /\ Cardinality(TimeoutsPending) <= 1
  /\ Cardinality(IntervalsPending) <= 1
  /\ \A t \in TimeoutsPending : t.id = timeoutRef /\ t.due = lastTrigger + delay
  /\ \A t \in IntervalsPending : t.id = countdownIntervalRef

C1_Step ==
  /\ (op' = "triggerAutosave") =>
       /\ Cardinality({t \in timers' : t.kind = "timeout"}) = 1
       /\ Cardinality({t \in timers' : t.kind = "interval"}) = 1
       /\ (timers' \cap timers) = {}
  /\ (op' = "timeoutSave") =>
       /\ lastTrigger # NoDate
       /\ now >= lastTrigger + delay

\* C1 (debounce): at most one save timeout and one countdown interval are
\* live at any time, they are the ones the refs hold, a triggerAutosave leaves
\* exactly one save timeout due a full delay later, and a save started by the
\* timeout starts no earlier than a full delay after the most recent
\* triggerAutosave.
C1_Debounce ==
  /\ [](C1_OneOfEach)
  /\ [][C1_Step]_vars

\* A timer-driven save has started after the debounce was re-armed by a
\* second triggerAutosave one period after the first.
C1_Witness == op = "timeoutSave" /\ docText = 2 /\ lastTrigger > 0

\* C2 (autosave liveness in Home): once handleEditorUpdate has run in the
\* application as wired, the debounced save starts unless another edit or the
\* unload comes first.
C2_AutosaveRuns ==
  \A n \in 1..MaxEdits :
    (onSaveInline /\ page = "open" /\ docText = n /\ op = "triggerAutosave"
       /\ now + delay <= Horizon)
      ~> (docText > n \/ page = "unloaded" \/ op = "timeoutSave")

\* The same property for a caller whose onSave keeps its identity.
StableAutosaveRuns ==
  \A n \in 1..MaxEdits :
    (~onSaveInline /\ page = "open" /\ docText = n /\ op = "triggerAutosave"
       /\ now + delay <= Horizon)
      ~> (docText > n \/ page = "unloaded" \/ op \in {"timeoutSave", "directSave"})

\* The text of the document the last completed saveDocument stored; 0 (the
\* content the editor starts with) when nothing was stored.
PersistedText ==
  IF Get(documents, DOCUMENT_ID) = {} THEN 0
  ELSE LET v == (CHOOSE r \in Get(documents, DOCUMENT_ID) : TRUE).content
       IN IF Truthy(v) THEN TextOf(v) ELSE 0

\* C3 (safety net): an unload while the editor holds changes newer than the
\* content of the last successful save invokes onSave.
C3_SafetyNet ==
  [][(page = "open" /\ page' = "unloaded" /\ docText > PersistedText)
       => Len(saves') = Len(saves) + 1]_vars

C7_Step ==
  (status'.status # status.status) =>
    /\ (status'.status = "typing") => (op' = "triggerAutosave")
    /\ (status'.status = "saving") => (op' \in {"timeoutSave", "directSave"})
    /\ (status'.status = "saved") => (op' = "saveOk")
    /\ (status'.status = "idle") => (op' = "saveFailed")

\* C7 (status machine): status.status starts as 'idle' and is always one of
\* the four values; 'typing' is entered only by triggerAutosave, 'saving' only
\* by the start of save(), 'saved' only by a successful completion of onSave
\* inside save(), and 'idle' is re-entered only by a failed onSave.
C7_StatusMachine ==
  /\ status.status = "idle"
  /\ [](status.status \in {"idle", "typing", "saving", "saved"})
  /\ [][C7_Step]_vars

\* 'idle' has been re-entered, by a failed onSave, after a debounced save.
C7_Witness ==
  /\ status.status = "idle"
  /\ op = "saveFailed"
  /\ lastTrigger # NoDate

\* C8 (typing indicator): whenever a save timeout is pending, status.status
\* is 'typing'.
C8_TypingWhilePending == (TimeoutsPending # {}) => (status.status = "typing")

C9_Step ==
  (status'.lastSaved # status.lastSaved) =>
    /\ op' = "saveOk"
    /\ status'.lastSaved = now
    /\ status'.lastSaved >= status.lastSaved

\* C9 (lastSaved): lastSaved is null at first, changes only when an onSave
\* inside save() completes successfully, takes the time of that completion
\* and never decreases.
C9_LastSaved ==
  /\ status.lastSaved = NoDate
  /\ [][C9_Step]_vars

\* A later triggerAutosave and countdown tick have kept the lastSaved of an
\* earlier successful save.
C9_Witness ==
  /\ status.lastSaved # NoDate
  /\ status.status = "typing"
  /\ op = "interval"

C10_Rest ==
  /\ status'.status = "idle"
  /\ status'.countdown = 0
  /\ status'.lastSaved = status.lastSaved
  /\ timers' = timers
  /\ timeoutRef' = timeoutRef
  /\ countdownIntervalRef' = countdownIntervalRef
  /\ nextTimerId' = nextTimerId

\* C10 as stated (failed save): after a rejected onSave the status is 'idle'
\* with countdown 0, lastSaved is kept, the pending-changes flag is true and
\* no timer is scheduled or cleared.
C10_FailedSaveOriginal ==
  [][(op' = "saveFailed") => (C10_Rest /\ pendingChangesRef' = TRUE)]_vars

\* C10 as amended: the same, with the pending-changes flag left as it was
\* (true when a triggerAutosave has run since the last successful save).
C10_FailedSave ==
  [][(op' = "saveFailed") =>
       (C10_Rest /\ pendingChangesRef' = pendingChangesRef)]_vars

\* A debounced save failed after an earlier one had succeeded, while a newer
\* edit's countdown was running.
C10_Witness ==
  /\ op = "saveFailed"
  /\ pendingChangesRef
  /\ status.lastSaved # NoDate
  /\ TimeoutsPending # {}

\* What loadDocument returns when no read fails.
Loaded == loadDocument(documents)

\* C4 as stated (document round trip): loadDocument returns the value the
\* most recently completed saveDocument was given, whatever the value, and
\* null when no document was ever saved.
C4_RoundTripOriginal ==
  Loaded = (IF lastSavedDoc = Undefined THEN NullValue ELSE lastSavedDoc)

\* C4 as amended: loadDocument returns the value the most recently completed
\* saveDocument was given when that value is truthy (every TipTap document
\* is), and null when it is falsy or no document was ever saved; a page
\* reload does not change the result.
C4_RoundTrip ==
  Loaded = (IF lastSavedDoc # Undefined /\ Truthy(lastSavedDoc)
            THEN lastSavedDoc ELSE NullValue)

\* After a reload loadDocument returns the document, with its image node,
\* that the last completed saveDocument stored.
C4_Witness ==
  /\ op = "reload"
  /\ Truthy(lastSavedDoc)
  /\ NodesOf(lastSavedDoc) # <<>>
  /\ Loaded = lastSavedDoc

StoredIds == {r.id : r \in images}

\* C5 as stated (image reference integrity): every imageId referenced by
\* an image node of the persisted document has a record in the images store.
C5_IntegrityOriginal == RefIds(Loaded) \subseteq StoredIds

\* The same for the document in the editor, the documents being saved and
\* the image about to be inserted.
AllRefsStored ==
  /\ RefIds(Loaded) \subseteq StoredIds
  /\ RefIds(getJSON) \subseteq StoredIds
  /\ \A k \in DOMAIN saves : RefIds(saves[k].json) \subseteq StoredIds

\* What does hold: the references of the editor's document, of the documents
\* being saved and of the persisted document all have records at first, and
\* every step other than a deleteImage call or a paste of HTML that carries
\* its own data-image-id keeps it so.
PasteKeepsIntegrity ==
  /\ AllRefsStored
  /\ [][(AllRefsStored /\ op' \notin {"deleteImage", "pasteHtml"}) => AllRefsStored']_vars

\* b is a with the src of every image node that has an imageId and for which
\* loadImage returns a URL replaced by that URL, and nothing else changed.
RECURSIVE ResolvedAs(_, _, _, _)
ResolvedAs(a, b, store, failed) ==
  IF ~Truthy(a) THEN b = a
  ELSE
    LET recs == {r \in store : r.id = a.imageId /\ a.imageId \notin failed}
        hit == a.type = "image" /\ a.imageId # NoImageId /\ recs # {}
    IN
    /\ b.js = a.js
    /\ b.type = a.type
    /\ b.text = a.text
    /\ b.imageId = a.imageId
    /\ b.alt = a.alt
    /\ b.src = IF hit THEN BlobUrl((CHOOSE r \in recs : TRUE).blob) ELSE a.src
    /\ Len(b.content) = Len(a.content)
    /\ \A i \in DOMAIN a.content : ResolvedAs(a.content[i], b.content[i], store, failed)

\* C6 (image-reference resolution): resolveImageUrls returns the same tree,
\* node for node, in which each image node whose imageId has a blob that
\* loadImage finds has the URL of that blob as its src and keeps its other
\* attributes, and every other node is unchanged; null and other falsy
\* inputs come back as they are.
C6_Resolution ==
  resolveOut.done => ResolvedAs(resolveIn, resolveOut.tree, images, resolveOut.failed)

\* A tree with an image nested in a blockquote was resolved: one image got
\* the URL of its blob, another, whose blob is missing, kept its src.
C6_Witness ==
  /\ resolveOut.done
  /\ resolveOut.failed = {}
  /\ Truthy(resolveIn)
  /\ \E i \in DOMAIN resolveIn.content :
       /\ resolveIn.content[i].type = "blockquote"
       /\ \E j \in DOMAIN resolveIn.content[i].content :
            /\ resolveIn.content[i].content[j].imageId = ImageId(0, 1)
            /\ resolveOut.tree.content[i].content[j].src = BlobUrl(1)
  /\ \E i \in DOMAIN resolveIn.content :
       /\ resolveIn.content[i].imageId = ImageId(1, 1)
       /\ resolveOut.tree.content[i].src = NoSrc

\* C11 (unique image identifiers): every saveImage call that returns adds
\* exactly one record, under an identifier that no stored record has, returns
\* that identifier, and leaves every record already stored as it was.
C11_Step ==
  (op' = "callSaveImage" /\ ret'.outcome = "returned") =>
    /\ ret'.id \notin StoredIds
    /\ images \subseteq images'
    /\ Cardinality(images') = Cardinality(images) + 1
    /\ \E r \in images' \ images : r.id = ret'.id

C11_UniqueIds == [][C11_Step]_vars

\* The image nodes of a tree whose src holds the image's bytes (a data: URL).
RECURSIVE InlineImages(_)
InlineImages(v) ==
  (IF v.type = "image" /\ v.src.kind = "data" THEN {v} ELSE {})
    \cup UNION {InlineImages(v.content[i]) : i \in DOMAIN v.content}

\* C12 (reference by identifier only): the image node a paste or drop has
\* just inserted carries the imageId of a stored blob, and no image node of
\* the document that saveDocument wrote holds image data inline.
C12_ByIdentifierOnly ==
  /\ op = "pasteInsert" =>
       /\ docNodes[Len(docNodes)].imageId # NoImageId
       /\ docNodes[Len(docNodes)].imageId \in StoredIds
  /\ InlineImages(Loaded) = {}

C13_OneRecord ==
  /\ Cardinality(documents) <= 1
  /\ documents = {} <=> lastSavedDoc = Undefined
  /\ \A r \in documents : r.id = DOCUMENT_ID /\ r.content = lastSavedDoc

C13_Step == op' = "callSaveDocument" => images' = images

\* C13 (single document): the documents store holds at most one record, its
\* key is 'main-document' and its content is what the last completed
\* saveDocument was given; no saveDocument call changes the images store.
C13_SingleDocument == []C13_OneRecord /\ [][C13_Step]_vars

\* A saveDocument call has completed on a database that holds images, and
\* the one record holds the document it was given.
C13_Witness ==
  /\ op = "callSaveDocument"
  /\ ret.outcome = "returned"
  /\ images # {}
  /\ documents = {[id |-> DOCUMENT_ID, content |-> DocJson(2, <<>>)]}

C14_Step ==
  /\ (op' = "callLoadImage" /\ ret'.dbError = "") =>
       /\ \A p \in savedAs : p.id = ret'.id => ret'.url = BlobUrl(p.blob)
       /\ (\A p \in savedAs : p.id # ret'.id) => ret'.url = NoSrc
  /\ (op' = "callGetAllImages" /\ ret'.dbError = "") => ret'.ids = {p.id : p \in savedAs}

\* C14 (image store round trip): when the read succeeds, loadImage(id)
\* returns the URL of the blob of every saveImage call that returned id and
\* whose id no deleteImage has deleted since, and null when there is no such
\* call (never stored, or deleted); getAllImages returns exactly the stored
\* identifiers.
C14_ImageRoundTrip == [][C14_Step]_vars

ReadCalls == {"loadDocument", "loadImage", "getAllImages"}
WriteCalls == {"saveDocument", "saveImage", "deleteImage"}

C15_Step ==
  /\ ret'.call \in ReadCalls =>
       /\ ret'.outcome = "returned"
       /\ ret'.dbError # "" =>
            /\ ret'.call = "loadDocument" => ret'.doc = NullValue
            /\ ret'.call = "loadImage" => ret'.url = NoSrc
            /\ ret'.call = "getAllImages" => ret'.ids = {}
  /\ (ret'.call \in WriteCalls /\ ret'.dbError # "") =>
       /\ ret'.outcome = "rejected"
       /\ ret'.err = ret'.dbError
       /\ documents' = documents
       /\ images' = images

\* C15 (storage error outcomes): a read call always returns, with null
\* (loadDocument, loadImage) or the empty list (getAllImages) when its
\* database operation fails; a write call whose database operation fails
\* rejects with that error and leaves both stores as they were.
C15_ErrorOutcomes == [][C15_Step]_vars

\* A saveImage call on a database that holds a document and an image has
\* rejected with the quota error of its put.
C15_Witness ==
  /\ ret.call = "saveImage"
  /\ ret.outcome = "rejected"
  /\ ret.err = "QuotaExceededError"
  /\ images # {}
  /\ documents # {}

C16_Step ==
  /\ (status'.status = "saved" /\ status.status # "saved") => op' = "saveOk"
  /\ op' = "saveOk" =>
       /\ status'.status = "saved"
       /\ Get(documents', DOCUMENT_ID) =
            {[id |-> DOCUMENT_ID, content |-> Head(saves).started]}

HomeNeverSaves == onSaveInline => status.status \in {"idle", "typing"}

\* C17 (all changes saved): whenever the indicator reads "All changes saved"
\* the documents store holds the editor's current content, every edit
\* included.
C17_AllChangesSaved ==
  getStatusText(status).text = "All changes saved" => docText = PersistedText

C18_ZeroUnlessTyping ==
  /\ status.countdown >= 0
  /\ status.status \in {"idle", "saving", "saved"} => status.countdown = 0

C18_Step ==
  /\ op' = "triggerAutosave" => status'.countdown = CeilDiv(delay, 1000)
  /\ op' = "interval" => status'.countdown = status.countdown - 1

\* C18 (countdown): triggerAutosave sets the countdown to ceil(delay/1000),
\* each interval tick lowers it by one, it is never negative, and it is 0
\* whenever the status is 'idle', 'saving' or 'saved'.
C18_Countdown == []C18_ZeroUnlessTyping /\ [][C18_Step]_vars

\* The hook's record of an autosave triggered in this step.
Triggered ==
  /\ lastTrigger' = now
  /\ pendingChangesRef'
  /\ status'.status = "typing"
  /\ \E t \in timers' : t.kind = "timeout" /\ t.id = timeoutRef' /\ t.due = now + delay

C19_Step ==
  /\ docNodes' # docNodes =>
       /\ op' = "pasteInsert"
       /\ docNodes' = Append(docNodes, ImageNode(paste.imageId, loadImage(images, paste.imageId, TRUE), 0))
       /\ paste.imageId \in StoredIds
       /\ loadImage(images, paste.imageId, TRUE) # NoSrc
       /\ Triggered
  /\ docNodes' = docNodes => UNCHANGED <<timers, lastTrigger, status, pendingChangesRef>>
  /\ op' \in {"pasteSaveImageFailed", "pasteLoadImageNull"} =>
       /\ docNodes' = docNodes
       /\ paste'.imageId = NoImageId

C20_Step ==
  LET h == Head(paste.items) IN
  /\ (paste.active /\ ~paste'.active) => op' \in {"pasteInsert", "pasteNull"}
  /\ op' = "pasteNull" =>
       /\ paste.items = <<>>
       /\ images' = images
       /\ docNodes' = docNodes
  /\ op' = "pasteInsert" =>
       /\ images' = images
       /\ \E rec \in images :
            /\ rec.id = paste.imageId
            /\ docNodes'[Len(docNodes')] = ImageNode(rec.id, BlobUrl(rec.blob), 0)
  /\ op' = "pasteSkip" =>
       /\ ~h.image \/ h.blob = 0
       /\ images' = images
       /\ paste'.items = Tail(paste.items)
  /\ op' = "pasteSaveImage" =>
       /\ h.image
       /\ paste'.imageId # NoImageId
       /\ images' = {rec \in images : rec.id # paste'.imageId}
                      \cup {[id |-> paste'.imageId, blob |-> h.blob]}
       /\ paste'.items = paste.items
  /\ op' \in {"pasteSaveImageFailed", "pasteLoadImageNull"} =>
       /\ images' = images
       /\ docNodes' = docNodes
       /\ paste'.active
       /\ paste'.imageId = NoImageId
       /\ paste'.items = Tail(paste.items)
  /\ (images' # images /\ op' # "deleteImage") => (op' = "pasteSaveImage" /\ paste.active)

\* C20 (handleImagePaste / handleImageDrop): a call ends by returning
\* {imageId, src} or null, never by rejecting; it passes the entries in
\* order, stores nothing for an entry that is no image, stores an image entry
\* and returns the pair when loadImage gives a URL, after which nothing more
\* is stored; a failed store or load moves on to the next entry; null is
\* returned when the entries are used up.
C20_PasteNeverRejects == [][C20_Step]_vars

\* The store of the first image entry went through but its load did not;
\* the call went on, stored the next entry a millisecond later and returned
\* its pair.
C20_Witness ==
  /\ op = "pasteInsert"
  /\ Cardinality(images) = 2
  /\ docNodes = <<ImageNode(ImageId(1, 1), BlobUrl(1), 0)>>

\* C21 (no overlapping saves): at most one onSave invocation is in flight at
\* any time, whether save() was started by the debounce timeout, by a direct
\* call or by the beforeunload handler.
C21_NoOverlappingSaves == Len(saves) <= 1
====
